---- MODULE Spec2Model ----
(***************************************************************************)
(* AirAnchor gateway: the rate-limited batching dispatcher (app/main.py),  *)
(* the batch builder (app/core), the request codec (app/model) and the     *)
(* token bucket (app/utils/TokenBucket.py).                                *)
(*                                                                         *)
(* Time is counted in ticks of one second, the leaky bucket's interval.    *)
(* time.monotonic() has no fixed origin: every timestamp is kept relative  *)
(* to the present, which is 0, and a tick lowers each stored timestamp.    *)
(***************************************************************************)
EXTENDS Integers, Sequences, FiniteSets, TLC

\* ---------------------------------------------------------------- bounds
\* Deliveries the upstream queue makes in one run (redeliveries included).
MaxMsgs == 4
\* Ticks a blocked enqueue is counted for (the spec's 1.2 s, rounded up).
PutTimeoutTicks == 2
\* The largest number of tokens a caller of the token bucket harness asks for.
MaxAsk == 4
\* The longest window, in seconds, the released messages are counted over.
WindowTicks == 2

\* ------------------------------------------------- configuration values
\* The process environment enviroments.py reads with os.getenv.
VARIABLE env

TOKEN_RATE == env.TOKEN_RATE
TOKEN_CAPACITY == env.TOKEN_CAPACITY
LEAKY_BUCKET_LIMIT == env.LEAKY_BUCKET_LIMIT

\* A small deployment, and the defaults of enviroments.py.
SmallEnv == [TOKEN_RATE |-> 1, TOKEN_CAPACITY |-> 3, LEAKY_BUCKET_LIMIT |-> 2]
DefaultEnv == [TOKEN_RATE |-> 5, TOKEN_CAPACITY |-> 30, LEAKY_BUCKET_LIMIT |-> 10]

Min(a, b) == IF a < b THEN a ELSE b
Max(a, b) == IF a > b THEN a ELSE b

\* ------------------------------------------------------- request codec
\* A message body: whether cbor.loads accepts the bytes, the keys of the
\* decoded map, and whether the client signature verifies.
attributes == {"sender_public_key", "csr", "data"}

Garbage == [decodes |-> FALSE, keys |-> {}, sig |-> FALSE]
BadSig == [decodes |-> TRUE, keys |-> attributes, sig |-> FALSE]
Good == [decodes |-> TRUE, keys |-> attributes, sig |-> TRUE]

Bodies == {Garbage, BadSig, Good}

\* TransactionRequest.from_dict: every key must be a known attribute, then
\* each attribute is read (a missing one raises KeyError).
from_dict(keys) == (\A k \in keys : k \in attributes) /\ (\A a \in attributes : a \in keys)

\* TransactionRequest.deserialize: TRUE when it returns, FALSE when it raises.
deserialize(body) == body.decodes /\ from_dict(body.keys)

\* _validate_transaction_request accepting every request.
validate_any_request(tr) == TRUE

\* Server._validate_transaction_request
validate_transaction_request(tr) == tr.body.sig

\* ------------------------------------------------------- token bucket
\* time.monotonic(): the present.
monotonic == 0

NoBucket == [present |-> FALSE, tokens |-> 0, last |-> 0]

\* replenish with max written for min.
replenished_max(tokens_in_bucket, last_replenished_at, t) ==
    Max(TOKEN_CAPACITY, tokens_in_bucket + TOKEN_RATE * (t - last_replenished_at))

\* The new token count MemoryStorage.replenish computes.
replenished(tokens_in_bucket, last_replenished_at, t) ==
    Min(TOKEN_CAPACITY, tokens_in_bucket + TOKEN_RATE * (t - last_replenished_at))

\* MemoryStorage.replenish at clock value t, run without interruption.
replenish(b, t) ==
    IF ~b.present THEN [present |-> TRUE, tokens |-> TOKEN_CAPACITY, last |-> t]
    ELSE IF t < b.last THEN b
    ELSE [present |-> TRUE, tokens |-> replenished(b.tokens, b.last, t), last |-> t]

\* MemoryStorage.consume's test, one token short.
storage_refuses_short(tokens_in_bucket, num_tokens) == tokens_in_bucket < num_tokens - 1

\* MemoryStorage.consume's test: TRUE when the call is refused.
storage_refuses(tokens_in_bucket, num_tokens) == tokens_in_bucket < num_tokens

\* MemoryStorage.consume, run without interruption.
storage_consume(b, num_tokens) ==
    IF storage_refuses(b.tokens, num_tokens)
    THEN [ok |-> FALSE, bucket |-> b]
    ELSE [ok |-> TRUE, bucket |-> [b EXCEPT !.tokens = @ - num_tokens]]

\* TokenBucket.consume, run without interruption (num_tokens >= 1).
consume(b, t, num_tokens) == storage_consume(replenish(b, t), num_tokens)

\* ---------------------------------------------------------------- state
VARIABLES
    nextTag,      \* delivery tag of the next upstream delivery
    putting,      \* the delivery _consumer_callback is blocked on in buffer.put (at most one)
    blockedTicks, \* ticks the ingestion callback has spent blocked in buffer.put
    buffer,       \* queue.Queue(maxsize=TOKEN_CAPACITY) of (ch, method, body)
    callbacks,    \* callbacks posted with add_callback_threadsafe, not yet run
    unacked,      \* the broker's side of the channel: deliveries not yet settled
    unknownTag,   \* whether a settlement named a delivery that was not unsettled
    bucket,       \* token_bucket._storage._buckets['bucket']
    leaky,        \* leaky_bucket: acquisitions inside the current interval
    remaining,    \* the carry-over counter
    pc,           \* where the dispatcher thread is in consume_queue
    tokens,       \* wait_to_consume's local, then the allowance it returned
    messages,     \* the messages drained in this iteration
    payloads,     \* the messages of this iteration that deserialized
    batch,        \* the transactions create_and_send_batch built, by request
    result,       \* what decided this iteration: a CA failure or the validator's response
    submitted,    \* whether this iteration's batch was sent to the validator
    started,      \* the payloads this iteration started a listener thread for
    sent,         \* the Batch this iteration submitted to the validator
    call,         \* the callers of the token bucket harness
    base,         \* harness: the bucket when the round of calls began
    overlap,      \* harness: whether the calls of this round interleaved
    window,       \* messages released to the builder in each of the last seconds
    payload,      \* the loop variable of _start_blockchain_event_callback_listener
    threads,      \* the listener threads it started, by position in its argument
    queues,       \* the confirmation queues, by hash: those declared, those holding a message
    documents,    \* the documents created in the document store, in order
    debited       \* the tokens token_bucket.consume has taken out for the dispatcher

vars == <<env, nextTag, putting, blockedTicks, buffer, callbacks, unacked, unknownTag, bucket,
          leaky, remaining, pc, tokens, messages, payloads, batch, result,
          submitted, started, sent, call, base, overlap, window, payload, threads,
          queues, documents, debited>>

ingestVars == <<nextTag, putting, blockedTicks>>
harnessVars == <<call, base, overlap>>
listenerVars == <<payload, threads, queues, documents>>

Tags == 1..MaxMsgs
Callers == {"a", "b"}
IdleCall == [pc |-> "idle", n |-> 0, tokens_in_bucket |-> 0, last |-> 0,
             seen |-> 0, sub |-> 0, res |-> FALSE]

\* No batch was submitted.
NoBatch == [header |-> [transaction_ids |-> <<>>], transactions |-> <<>>]

\* Nothing was released in any second of the window.
NoWindow == [k \in 1..WindowTicks |-> 0]

\* Nothing was delivered yet.
IdleIngestion ==
    /\ nextTag = 1
    /\ putting = <<>>
    /\ blockedTicks = 0
    /\ buffer = <<>>
    /\ callbacks = <<>>
    /\ unacked = {}
    /\ unknownTag = FALSE

\* The buckets as main.py creates them, carry-over 0.
NewBuckets ==
    /\ bucket = NoBucket
    /\ leaky = 0
    /\ remaining = 0
    /\ window = NoWindow
    /\ debited = 0

\* consume_queue is about to call wait_to_consume.
IdleDispatcher ==
    /\ pc = "limit"
    /\ tokens = 0
    /\ messages = <<>>
    /\ payloads = <<>>
    /\ batch = <<>>
    /\ result = "none"
    /\ submitted = FALSE
    /\ started = <<>>
    /\ sent = NoBatch

\* No call of the token bucket harness is under way.
IdleCallers ==
    /\ call = [c \in Callers |-> IdleCall]
    /\ base = NoBucket
    /\ overlap = FALSE

\* No listener thread was started.
NoListeners ==
    /\ payload = 0
    /\ threads = <<>>
    /\ queues = [declared |-> {}, ready |-> {}]
    /\ documents = <<>>

Init ==
    /\ env = SmallEnv
    /\ IdleIngestion
    /\ NewBuckets
    /\ IdleDispatcher
    /\ IdleCallers
    /\ NoListeners

\* ----------------------------------------------------- upstream channel
\* The channel as the broker keeps it: [unacked, unknownTag].
\* ch.basic_ack settling every outstanding delivery when multiple is set.
basic_ack_all(ch, tag, multiple) ==
    [unacked |-> {t \in ch.unacked : IF multiple THEN FALSE ELSE t # tag},
     unknownTag |-> ch.unknownTag \/ tag \notin ch.unacked]

\* ch.basic_ack(delivery_tag, multiple): the delivery is acked, and with
\* multiple every unsettled delivery up to it.
basic_ack(ch, tag, multiple) ==
    [unacked |-> {t \in ch.unacked : IF multiple THEN t > tag ELSE t # tag},
     unknownTag |-> ch.unknownTag \/ tag \notin ch.unacked]

\* ch.basic_reject(delivery_tag, requeue): the delivery is dropped, or goes
\* back to the queue to be delivered again under a new tag.
basic_reject(ch, tag, requeue) ==
    [unacked |-> ch.unacked \ {tag},
     unknownTag |-> ch.unknownTag \/ tag \notin ch.unacked]

RECURSIVE inner_reject(_, _, _)
\* reject_batch's inner_reject: reject every message of the list in order.
inner_reject(ch, tags, requeue) ==
    IF tags = <<>> THEN ch
    ELSE inner_reject(basic_reject(ch, Head(tags), requeue), Tail(tags), requeue)

\* The delivery tags of a list of messages, in order.
TagsOf(msgs) == [k \in 1..Len(msgs) |-> msgs[k].tag]

\* ack_batch reading messages[0] for messages[-1].
ack_batch_first(msgs) ==
    [op |-> "ack", tags |-> <<msgs[1].tag>>, multiple |-> TRUE, requeue |-> FALSE]

\* ack_batch: the callback it posts, for the last message of the list.
ack_batch(msgs) ==
    [op |-> "ack", tags |-> <<msgs[Len(msgs)].tag>>, multiple |-> TRUE, requeue |-> FALSE]

\* reject_batch: the callback it posts, for every message of the list.
reject_batch(msgs, requeue) ==
    [op |-> "reject", tags |-> TagsOf(msgs), multiple |-> FALSE, requeue |-> requeue]

\* ------------------------------------------------------ ingestion thread
\* The broker delivers a message and pika calls _consumer_callback, which
\* calls buffer.put with no timeout: it returns at once when there is room
\* and blocks the connection's thread otherwise.
ConsumerCallback ==
    /\ putting = <<>>
    /\ nextTag <= MaxMsgs
    /\ \E body \in Bodies :
          LET m == [tag |-> nextTag, body |-> body] IN
          IF Len(buffer) < TOKEN_CAPACITY
          THEN buffer' = Append(buffer, m) /\ putting' = putting
          ELSE buffer' = buffer /\ putting' = <<m>>
    /\ nextTag' = nextTag + 1
    /\ unacked' = unacked \cup {nextTag}
    /\ blockedTicks' = 0
    /\ UNCHANGED <<debited, callbacks, unknownTag, bucket, leaky, remaining, pc, tokens, messages,
                   payloads, batch, result, submitted, started, harnessVars, env, sent, window, listenerVars>>

\* buffer.put returns once the dispatcher has made room.
PutReturns ==
    /\ putting # <<>>
    /\ Len(buffer) < TOKEN_CAPACITY
    /\ buffer' = Append(buffer, putting[1])
    /\ putting' = <<>>
    /\ blockedTicks' = 0
    /\ UNCHANGED <<debited, nextTag, callbacks, unacked, unknownTag, bucket, leaky, remaining, pc, tokens,
                   messages, payloads, batch, result, submitted, started, harnessVars, env, sent, window, listenerVars>>

\* The connection's thread runs the oldest posted callback (it cannot while
\* it is blocked inside _consumer_callback).
RunCallback ==
    /\ putting = <<>>
    /\ callbacks # <<>>
    /\ LET cb == Head(callbacks)
           ch == [unacked |-> unacked, unknownTag |-> unknownTag]
           after == IF cb.op = "ack" THEN basic_ack(ch, cb.tags[1], cb.multiple)
                    ELSE inner_reject(ch, cb.tags, cb.requeue)
       IN /\ unacked' = after.unacked
          /\ unknownTag' = after.unknownTag
    /\ callbacks' = Tail(callbacks)
    /\ UNCHANGED <<debited, ingestVars, buffer, bucket, leaky, remaining, pc, tokens, messages,
                   payloads, batch, result, submitted, started, harnessVars, env, sent, window, listenerVars>>

\* ------------------------------------------------------ dispatcher thread
\* @leaky_bucket.ratelimit('bucket', delay=True): the call of wait_to_consume
\* is delayed until the interval has room, then takes one place in it.
RateLimit ==
    /\ pc = "limit"
    /\ leaky < LEAKY_BUCKET_LIMIT
    /\ leaky' = leaky + 1
    /\ pc' = "poll"
    /\ UNCHANGED <<debited, ingestVars, buffer, callbacks, unacked, unknownTag, bucket, remaining, tokens,
                   messages, payloads, batch, result, submitted, started, harnessVars, env, sent, window, listenerVars>>

\* wait_to_consume reading the size of the buffer without waiting for a
\* message.
ReadSizeAtOnce ==
    /\ pc = "poll"
    /\ tokens' = Len(buffer)
    /\ pc' = "consume"
    /\ UNCHANGED <<debited, ingestVars, buffer, callbacks, unacked, unknownTag, bucket, leaky, remaining,
                   messages, payloads, batch, result, submitted, started, harnessVars, env, sent, window, listenerVars>>

\* while (tokens := buffer.qsize()) == 0: sleep
ReadSize ==
    /\ pc = "poll"
    /\ Len(buffer) > 0
    /\ tokens' = Len(buffer)
    /\ pc' = "consume"
    /\ UNCHANGED <<debited, ingestVars, buffer, callbacks, unacked, unknownTag, bucket, leaky, remaining,
                   messages, payloads, batch, result, submitted, started, harnessVars, env, sent, window, listenerVars>>

\* The request of wait_to_consume without its floor of one token.
num_tokens_unfloored(n, rem) == n - rem

\* The number of tokens wait_to_consume asks the token bucket for.
num_tokens(n, rem) == Max(1, n - rem)

\* One pass of: while not token_bucket.consume(num_tokens=...): pass
WaitTokens ==
    /\ pc = "consume"
    /\ LET r == consume(bucket, monotonic, num_tokens(tokens, remaining)) IN
          /\ bucket' = r.bucket
          /\ debited' = IF r.ok THEN debited + num_tokens(tokens, remaining) ELSE debited
          /\ pc' = IF r.ok THEN "reshape" ELSE "consume"
    /\ UNCHANGED <<ingestVars, buffer, callbacks, unacked, unknownTag, leaky, remaining, tokens,
                   messages, payloads, batch, result, submitted, started, harnessVars, env, sent, window, listenerVars>>

\* The reshaping filling the allowance up to the limit whatever the
\* carry-over holds.
reshape_fills_limit(n, rem) ==
    IF n > LEAKY_BUCKET_LIMIT
    THEN [tokens |-> LEAKY_BUCKET_LIMIT, remaining |-> rem + (n - LEAKY_BUCKET_LIMIT)]
    ELSE [tokens |-> LEAKY_BUCKET_LIMIT, remaining |-> rem - (LEAKY_BUCKET_LIMIT - n)]

\* The reshaping adding the whole carry-over when the limit is not exceeded.
reshape_all_remaining(n, rem) ==
    IF n > LEAKY_BUCKET_LIMIT
    THEN [tokens |-> LEAKY_BUCKET_LIMIT, remaining |-> rem + (n - LEAKY_BUCKET_LIMIT)]
    ELSE [tokens |-> n + rem, remaining |-> 0]

\* The leaky-bucket reshaping of wait_to_consume: [tokens, remaining] after it.
reshape(n, rem) ==
    IF n > LEAKY_BUCKET_LIMIT
    THEN [tokens |-> LEAKY_BUCKET_LIMIT, remaining |-> rem + (n - LEAKY_BUCKET_LIMIT)]
    ELSE LET excess == Min(rem, LEAKY_BUCKET_LIMIT - n) IN
         [tokens |-> n + excess, remaining |-> rem - excess]

\* leaky_bucket.try_acquire('bucket'): TRUE when it raises BucketFullException.
try_acquire_raises(count) == count >= LEAKY_BUCKET_LIMIT

\* The rest of wait_to_consume: the reshaping, then try_acquire, whose
\* exception nothing in consume_queue catches: the dispatcher thread ends.
Reshape ==
    /\ pc = "reshape"
    /\ LET r == reshape(tokens, remaining) IN
          /\ tokens' = r.tokens
          /\ remaining' = r.remaining
    /\ IF try_acquire_raises(leaky)
       THEN pc' = "dead" /\ leaky' = leaky
       ELSE pc' = "drain" /\ leaky' = leaky + 1
    /\ UNCHANGED <<debited, ingestVars, buffer, callbacks, unacked, unknownTag, bucket, messages, payloads,
                   batch, result, submitted, started, harnessVars, env, sent, window, listenerVars>>

\* get_buffer_messages, one turn of its loop: messages.append(buffer.get())
\* get_buffer_messages taking the newest message of the buffer.
BufferGetNewest ==
    /\ pc = "drain"
    /\ buffer # <<>> /\ Len(messages) < tokens
    /\ messages' = Append(messages, buffer[Len(buffer)])
    /\ buffer' = SubSeq(buffer, 1, Len(buffer) - 1)
    /\ UNCHANGED <<debited, ingestVars, callbacks, unacked, unknownTag, bucket, leaky, remaining, pc, tokens,
                   payloads, batch, result, submitted, started, harnessVars, env, sent, window, listenerVars>>

\* get_buffer_messages, one pass of its loop: buffer.get() takes the oldest
\* message of the queue.
BufferGet ==
    /\ pc = "drain"
    /\ buffer # <<>> /\ Len(messages) < tokens
    /\ messages' = Append(messages, Head(buffer))
    /\ buffer' = Tail(buffer)
    /\ UNCHANGED <<debited, ingestVars, callbacks, unacked, unknownTag, bucket, leaky, remaining, pc, tokens,
                   payloads, batch, result, submitted, started, harnessVars, env, sent, window, listenerVars>>

RECURSIVE Deserialized(_, _)
\* The messages of a list whose body deserializes (ok = TRUE) or raises
\* (ok = FALSE), in order.
Deserialized(msgs, ok) ==
    IF msgs = <<>> THEN <<>>
    ELSE IF deserialize(Head(msgs).body) = ok
         THEN <<Head(msgs)>> \o Deserialized(Tail(msgs), ok)
         ELSE Deserialized(Tail(msgs), ok)

\* map_messages_to_payloads passing the whole drain to reject_batch.
map_rejects_drain(msgs) ==
    LET bad == Deserialized(msgs, FALSE) IN
    [k \in 1..Len(bad) |-> reject_batch(msgs, FALSE)]

\* map_messages_to_payloads: the callbacks it posts, one reject per message
\* that does not deserialize, each for that message alone.
map_rejects(msgs) ==
    LET bad == Deserialized(msgs, FALSE) IN
    [k \in 1..Len(bad) |-> reject_batch(<<bad[k]>>, FALSE)]

\* map_messages_to_payloads: the payloads it returns.
map_messages_to_payloads(msgs) == Deserialized(msgs, TRUE)

\* get_buffer_messages returns and map_messages_to_payloads runs.
MapMessages ==
    /\ pc = "drain"
    /\ ~(buffer # <<>> /\ Len(messages) < tokens)
    /\ payloads' = map_messages_to_payloads(messages)
    /\ callbacks' = callbacks \o map_rejects(messages)
    /\ pc' = "build"
    /\ UNCHANGED <<debited, ingestVars, buffer, unacked, unknownTag, bucket, leaky, remaining, tokens, messages,
                   batch, result, submitted, started, harnessVars, env, sent, window, listenerVars>>

\* What the CA answers to one signing request.
CAResponses == {"200", "401", "500", "unreachable"}

\* _send_csr_firm_request raising on 401 alone.
send_csr_firm_request_raises_401(ca_response) == ca_response = "401"

\* Server._send_csr_firm_request: TRUE when it raises HTTPException.
send_csr_firm_request_raises(ca_response) == ca_response # "200"

RECURSIVE build_transactions(_, _, _)
\* The loop of create_and_send_batch over trs[k..]: a request that fails
\* validation is skipped, a CA failure raises out of the loop, otherwise the
\* request's transaction is appended. ca[k] is the CA's answer for trs[k].
build_transactions(trs, ca, k) ==
    IF k > Len(trs) THEN [raised |-> "none", transactions |-> <<>>]
    ELSE IF ~validate_transaction_request(trs[k]) THEN build_transactions(trs, ca, k + 1)
    ELSE IF send_csr_firm_request_raises(ca[k]) THEN [raised |-> ca[k], transactions |-> <<>>]
    ELSE LET rest == build_transactions(trs, ca, k + 1) IN
         [raised |-> rest.raised,
          transactions |-> IF rest.raised # "none" THEN <<>>
                           ELSE <<trs[k].tag>> \o rest.transactions]

\* create_and_send_batch up to _merge_transactions_to_batches, the CA
\* answering ca[k] for the k-th request: its failure leaves
\* create_and_send_batch.
BuildWith(ca) ==
    /\ pc = "build"
    /\ LET r == build_transactions(payloads, ca, 1) IN
          /\ batch' = r.transactions
          /\ result' = IF r.raised # "none" THEN r.raised ELSE result
          /\ pc' = IF r.raised # "none" THEN "settle" ELSE "send"
    /\ UNCHANGED <<debited, ingestVars, buffer, callbacks, unacked, unknownTag, bucket, leaky,
                   remaining, tokens, messages, payloads, submitted, started, harnessVars, env, sent, window, listenerVars>>

BuildBatch == \E ca \in [1..Len(payloads) -> CAResponses] : BuildWith(ca)

\* What comes back from the validator: a ClientBatchSubmitResponse status,
\* or nothing within the 5 seconds of future.result.
ValidatorResponses == {"OK", "INTERNAL_ERROR", "INVALID_BATCH",
                       "QUEUE_FULL", "timeout"}

\* _validate_batch_response_status without the INVALID_BATCH entry.
validate_batch_response_status_partial(proto_status) ==
    CASE proto_status = "QUEUE_FULL" -> "Sawtooth_back_pressure_exception"
      [] OTHER -> "none"

\* _validate_batch_response_status returning for OK alone.
validate_batch_response_status_ok_only(proto_status) ==
    CASE proto_status = "INVALID_BATCH" -> "Sawtooth_invalid_transaction_format"
      [] proto_status = "QUEUE_FULL" -> "Sawtooth_back_pressure_exception"
      [] proto_status = "OK" -> "none"
      [] OTHER -> "Exception"

\* Server._validate_batch_response_status: the exception it raises for a
\* status name, "none" when it returns the name.
validate_batch_response_status(proto_status) ==
    CASE proto_status = "INVALID_BATCH" -> "Sawtooth_invalid_transaction_format"
      [] proto_status = "QUEUE_FULL" -> "Sawtooth_back_pressure_exception"
      [] OTHER -> "none"

\* Server._send_batches: the exception that leaves it for a validator
\* response, "none" when it returns.
send_batches(response) ==
    IF response = "timeout" THEN "TimeoutError"
    ELSE validate_batch_response_status(response)

\* Transaction.header_signature of the transaction built for a request: the
\* signature of a header that holds the payload's hash and a fresh nonce,
\* one value per transaction.
header_signature(transaction) == <<"signature", transaction>>

\* _merge_transactions_to_batches with the transaction ids reversed.
merge_transactions_reversed(transactions) ==
    [header |-> [transaction_ids |->
                    [k \in 1..Len(transactions) |->
                        header_signature(transactions[Len(transactions) + 1 - k])]],
     transactions |-> transactions]

\* Server._merge_transactions_to_batches: the one Batch of the BatchList.
merge_transactions_to_batches(transactions) ==
    [header |-> [transaction_ids |->
                    [k \in 1..Len(transactions) |-> header_signature(transactions[k])]],
     transactions |-> transactions]

\* The end of create_and_send_batch starting a listener whatever
\* _send_batches did.
SendBatchStartsAlways ==
    /\ pc = "send"
    /\ \E response \in ValidatorResponses : result' = response
    /\ started' = batch
    /\ sent' = merge_transactions_to_batches(batch)
    /\ submitted' = TRUE
    /\ pc' = "settle"
    /\ UNCHANGED <<debited, ingestVars, buffer, callbacks, unacked, unknownTag, bucket, leaky, remaining, tokens,
                   messages, payloads, batch, harnessVars, env, window, listenerVars>>

\* The end of create_and_send_batch: _merge_transactions_to_batches,
\* _send_batches, then one listener thread per payload of the batch when it
\* returned.
SendBatch ==
    /\ pc = "send"
    /\ \E response \in ValidatorResponses :
          /\ result' = response
          /\ started' = IF send_batches(response) = "none" THEN batch ELSE started
    /\ sent' = merge_transactions_to_batches(batch)
    /\ submitted' = TRUE
    /\ pc' = "settle"
    /\ UNCHANGED <<debited, ingestVars, buffer, callbacks, unacked, unknownTag, bucket, leaky, remaining, tokens,
                   messages, payloads, batch, harnessVars, env, window, listenerVars>>

\* The exception create_and_send_batch raised in this iteration, "none"
\* when it returned.
raised(res) == IF res \in ValidatorResponses THEN send_batches(res) ELSE "HTTPException"

\* The try/except of consume_queue with requeue=False in every handler.
settle_callback_no_requeue(msgs, exc) ==
    CASE exc = "none" -> ack_batch(msgs)
      [] OTHER -> reject_batch(msgs, FALSE)

\* The try/except of consume_queue: the callback it posts.
settle_callback(msgs, exc) ==
    CASE exc = "none" -> ack_batch(msgs)
      [] exc = "Sawtooth_back_pressure_exception" -> reject_batch(msgs, TRUE)
      [] OTHER -> reject_batch(msgs, FALSE)

\* The try/except of consume_queue once create_and_send_batch has returned
\* or raised. messages[-1] of an empty list raises IndexError in ack_batch
\* (caught, and raised again by reject_batch) and in reject_batch: the
\* exception leaves the loop and the thread ends. The locals are assigned
\* again before the next iteration reads them.
SettleBatch ==
    /\ pc = "settle"
    /\ IF messages = <<>>
       THEN pc' = "dead" /\ callbacks' = callbacks
       ELSE /\ pc' = "limit"
            /\ callbacks' = Append(callbacks, settle_callback(messages, raised(result)))
    /\ tokens' = 0
    /\ messages' = <<>>
    /\ payloads' = <<>>
    /\ batch' = <<>>
    /\ result' = "none"
    /\ submitted' = FALSE
    /\ started' = <<>>
    /\ sent' = NoBatch
    /\ UNCHANGED <<debited, ingestVars, buffer, unacked, unknownTag, bucket, leaky, remaining,
                   harnessVars, env, window, listenerVars>>

\* ------------------------------------------------------------------ time
\* A timestamp one second later: one further in the past.
Older(t) == t - 1

\* One second passes. A second that nothing can observe is left out: the
\* clock moves only while the token bucket is below capacity, the leaky
\* bucket's interval holds an acquisition, or the ingestion callback is
\* blocked.
Tick ==
    /\ \/ bucket.present /\ replenish(bucket, monotonic).tokens < TOKEN_CAPACITY
       \/ leaky > 0
       \/ putting # <<>> /\ blockedTicks <= PutTimeoutTicks
    /\ bucket' = IF bucket.present THEN [bucket EXCEPT !.last = Older(@)] ELSE bucket
    /\ leaky' = 0
    /\ blockedTicks' = IF putting # <<>> THEN Min(blockedTicks + 1, PutTimeoutTicks + 1) ELSE 0
    /\ UNCHANGED <<debited, nextTag, putting, buffer, callbacks, unacked, unknownTag, remaining, pc, tokens,
                   messages, payloads, batch, result, submitted, started, harnessVars, env, sent, window, listenerVars>>

Next ==
    \/ ConsumerCallback
    \/ PutReturns
    \/ RunCallback
    \/ RateLimit
    \/ ReadSize
    \/ WaitTokens
    \/ Reshape
    \/ BufferGet
    \/ MapMessages
    \/ BuildBatch
    \/ SendBatch
    \/ SettleBatch
    \/ Tick

Spec == Init /\ [][Next]_vars

\* ------------------------------------------- token bucket, two callers
\* Two threads call TokenBucket.consume on one bucket. Each step below is
\* one read or one write of self._buckets; a round is the calls made from
\* the moment a caller starts while the other is idle until both returned.
Other(c) == CHOOSE o \in Callers : o # c
InCall(c) == call[c].pc \notin {"idle", "done"}

\* A caller's step: the round's calls interleave when the other is in a call.
Interleaves(c) == overlap \/ InCall(Other(c))

\* What a bucket holds at present: the stored count and what the rate has
\* added since last_replenished_at, up to the capacity; the capacity when
\* the bucket does not exist yet.
held(b) ==
    [present |-> TRUE,
     tokens |-> IF b.present
                THEN Min(TOKEN_CAPACITY, b.tokens + TOKEN_RATE * (monotonic - b.last))
                ELSE TOKEN_CAPACITY,
     last |-> monotonic]

\* TokenBucket.consume is called with num_tokens = n (n >= 1, so it does
\* not raise).
Call(c) ==
    /\ call[c].pc = "idle"
    /\ \E n \in 1..MaxAsk :
          call' = [call EXCEPT ![c] = [IdleCall EXCEPT !.pc = "replenish_read", !.n = n]]
    /\ IF call[Other(c)].pc = "idle"
       THEN base' = held(bucket) /\ overlap' = FALSE
       ELSE base' = base /\ overlap' = Interleaves(c)
    /\ UNCHANGED <<debited, env, sent, window, listenerVars, ingestVars, buffer, callbacks, unacked, unknownTag, bucket, leaky,
                   remaining, pc, tokens, messages, payloads, batch, result, submitted,
                   started>>

\* MemoryStorage.replenish: tokens_in_bucket, last_replenished_at =
\* self._buckets[key], or the KeyError branch that creates the bucket.
ReplenishRead(c) ==
    /\ call[c].pc = "replenish_read"
    /\ IF bucket.present
       THEN /\ call' = [call EXCEPT ![c].pc = "replenish_write",
                                    ![c].tokens_in_bucket = bucket.tokens,
                                    ![c].last = bucket.last]
            /\ bucket' = bucket
       ELSE /\ call' = [call EXCEPT ![c].pc = "consume_read"]
            /\ bucket' = [present |-> TRUE, tokens |-> TOKEN_CAPACITY, last |-> monotonic]
    /\ overlap' = Interleaves(c)
    /\ UNCHANGED <<debited, env, sent, window, listenerVars, ingestVars, buffer, callbacks, unacked, unknownTag, leaky, remaining,
                   pc, tokens, messages, payloads, batch, result, submitted, started, base>>

\* MemoryStorage.replenish: now = time.monotonic(), the test against
\* last_replenished_at, and the write of [min(capacity, ...), now].
ReplenishWrite(c) ==
    /\ call[c].pc = "replenish_write"
    /\ bucket' = IF monotonic < call[c].last THEN bucket
                 ELSE [present |-> TRUE,
                       tokens |-> replenished(call[c].tokens_in_bucket, call[c].last, monotonic),
                       last |-> monotonic]
    /\ call' = [call EXCEPT ![c].pc = "consume_read"]
    /\ overlap' = Interleaves(c)
    /\ UNCHANGED <<debited, env, sent, window, listenerVars, ingestVars, buffer, callbacks, unacked, unknownTag, leaky, remaining,
                   pc, tokens, messages, payloads, batch, result, submitted, started, base>>

\* MemoryStorage.consume: tokens_in_bucket = self._buckets[key][0] and the
\* test that returns False.
ConsumeRead(c) ==
    /\ call[c].pc = "consume_read"
    /\ call' = [call EXCEPT ![c].seen = bucket.tokens,
                            ![c].pc = IF storage_refuses(bucket.tokens, call[c].n)
                                      THEN "done" ELSE "subtract_read",
                            ![c].res = FALSE]
    /\ overlap' = Interleaves(c)
    /\ UNCHANGED <<debited, env, sent, window, listenerVars, ingestVars, buffer, callbacks, unacked, unknownTag, bucket, leaky,
                   remaining, pc, tokens, messages, payloads, batch, result, submitted,
                   started, base>>

\* self._buckets[key][0] -= num_tokens: the read of the count.
SubtractRead(c) ==
    /\ call[c].pc = "subtract_read"
    /\ call' = [call EXCEPT ![c].sub = bucket.tokens, ![c].pc = "subtract_write"]
    /\ overlap' = Interleaves(c)
    /\ UNCHANGED <<debited, env, sent, window, listenerVars, ingestVars, buffer, callbacks, unacked, unknownTag, bucket, leaky,
                   remaining, pc, tokens, messages, payloads, batch, result, submitted,
                   started, base>>

\* self._buckets[key][0] -= num_tokens: the write, then return True.
SubtractWrite(c) ==
    /\ call[c].pc = "subtract_write"
    /\ bucket' = [bucket EXCEPT !.tokens = call[c].sub - call[c].n]
    /\ call' = [call EXCEPT ![c].pc = "done", ![c].res = TRUE]
    /\ overlap' = Interleaves(c)
    /\ UNCHANGED <<debited, env, sent, window, listenerVars, ingestVars, buffer, callbacks, unacked, unknownTag, leaky, remaining,
                   pc, tokens, messages, payloads, batch, result, submitted, started, base>>

\* The round ends: every caller that called has returned.
Return ==
    /\ \E c \in Callers : call[c].pc = "done"
    /\ \A c \in Callers : call[c].pc \in {"idle", "done"}
    /\ call' = [c \in Callers |-> IdleCall]
    /\ base' = NoBucket
    /\ overlap' = FALSE
    /\ UNCHANGED <<debited, env, sent, window, listenerVars, ingestVars, buffer, callbacks, unacked, unknownTag, bucket, leaky,
                   remaining, pc, tokens, messages, payloads, batch, result, submitted,
                   started>>

\* One second passes for the callers (while the bucket is below capacity):
\* the bucket's timestamp and every copy of it a call holds grow older.
TickCallers ==
    /\ bucket.present /\ replenish(bucket, monotonic).tokens < TOKEN_CAPACITY
    /\ bucket' = [bucket EXCEPT !.last = Older(@)]
    /\ base' = IF base.present THEN [base EXCEPT !.last = Older(@)] ELSE base
    /\ call' = [c \in Callers |->
                  IF call[c].pc = "replenish_write"
                  THEN [call[c] EXCEPT !.last = Older(@)] ELSE call[c]]
    /\ UNCHANGED <<debited, env, sent, window, listenerVars, ingestVars, buffer, callbacks, unacked, unknownTag, leaky, remaining,
                   pc, tokens, messages, payloads, batch, result, submitted, started,
                   overlap>>

NextCallers ==
    \/ \E c \in Callers :
          \/ Call(c)
          \/ ReplenishRead(c)
          \/ ReplenishWrite(c)
          \/ ConsumeRead(c)
          \/ SubtractRead(c)
          \/ SubtractWrite(c)
    \/ Return
    \/ TickCallers

SpecCallers == Init /\ [][NextCallers]_vars

\* ------------------------------------------- rate shaping under a flood
\* The deliveries of a run that follows the shaping alone.
MaxShaped == 60

\* The messages of one burst of deliveries.
BurstSize == 10

\* _consumer_callback for a burst of well-formed messages the buffer has
\* room for (the upstream channel is not followed here).
Deliver ==
    /\ nextTag + BurstSize - 1 <= MaxShaped
    /\ Len(buffer) + BurstSize <= TOKEN_CAPACITY
    /\ buffer' = buffer \o [k \in 1..BurstSize |-> [tag |-> nextTag + k - 1, body |-> Good]]
    /\ nextTag' = nextTag + BurstSize
    /\ UNCHANGED <<debited, env, putting, blockedTicks, callbacks, unacked, unknownTag, bucket, leaky,
                   remaining, pc, tokens, messages, payloads, batch, result, submitted,
                   started, sent, harnessVars, window, listenerVars>>

\* get_buffer_messages returns and the drained messages go to the batch
\* builder: the rest of the iteration, counted in the current second.
Release ==
    /\ pc = "drain"
    /\ ~(buffer # <<>> /\ Len(messages) < tokens)
    /\ window' = [window EXCEPT ![WindowTicks] = @ + Len(messages)]
    /\ messages' = <<>>
    /\ tokens' = 0
    /\ pc' = "limit"
    /\ UNCHANGED <<debited, env, ingestVars, buffer, callbacks, unacked, unknownTag, bucket, leaky,
                   remaining, payloads, batch, result, submitted, started, sent,
                   harnessVars, listenerVars>>

\* One second passes: as Tick, and the window moves on by one second.
TickShaping ==
    /\ \/ bucket.present /\ replenish(bucket, monotonic).tokens < TOKEN_CAPACITY
       \/ leaky > 0
       \/ window # NoWindow
    /\ bucket' = IF bucket.present THEN [bucket EXCEPT !.last = Older(@)] ELSE bucket
    /\ leaky' = 0
    /\ window' = Tail(window) \o <<0>>
    /\ UNCHANGED <<debited, env, ingestVars, buffer, callbacks, unacked, unknownTag, remaining, pc,
                   tokens, messages, payloads, batch, result, submitted, started, sent,
                   harnessVars, listenerVars>>

InitShaping ==
    /\ env = DefaultEnv
    /\ IdleIngestion
    /\ NewBuckets
    /\ IdleDispatcher
    /\ IdleCallers
    /\ NoListeners

NextShaping ==
    \/ Deliver
    \/ RateLimit
    \/ ReadSize
    \/ WaitTokens
    \/ Reshape
    \/ BufferGet
    \/ Release
    \/ TickShaping

SpecShaping == InitShaping /\ [][NextShaping]_vars

\* -------------------------------------------------- one burst, reshaped
\* The messages enqueued at once before the dispatcher's first iteration.
EnqueuedAtOnce == 25

\* The burst is in the buffer, in the order of its delivery, and nothing
\* else is delivered.
InitBurst ==
    /\ env = DefaultEnv
    /\ nextTag = EnqueuedAtOnce + 1
    /\ putting = <<>>
    /\ blockedTicks = 0
    /\ buffer = [k \in 1..EnqueuedAtOnce |-> [tag |-> k, body |-> Good]]
    /\ callbacks = <<>>
    /\ unacked = 1..EnqueuedAtOnce
    /\ unknownTag = FALSE
    /\ NewBuckets
    /\ IdleDispatcher
    /\ IdleCallers
    /\ NoListeners

NextBurst ==
    \/ RateLimit
    \/ ReadSize
    \/ WaitTokens
    \/ Reshape
    \/ BufferGet
    \/ Release
    \/ TickShaping

SpecBurst == InitBurst /\ [][NextBurst]_vars

\* ------------------------------------------------------ a filled buffer
\* The buffer holds any number of messages up to its maxsize, TOKEN_CAPACITY,
\* when the dispatcher starts, and nothing else is delivered.
InitFill ==
    /\ env = DefaultEnv
    /\ \E k \in 1..TOKEN_CAPACITY :
          /\ nextTag = k + 1
          /\ buffer = [j \in 1..k |-> [tag |-> j, body |-> Good]]
          /\ unacked = 1..k
    /\ putting = <<>>
    /\ blockedTicks = 0
    /\ callbacks = <<>>
    /\ unknownTag = FALSE
    /\ NewBuckets
    /\ IdleDispatcher
    /\ IdleCallers
    /\ NoListeners

\* Time passes, and the dispatcher's busy loop on token_bucket.consume keeps
\* running.
FairSpecFill ==
    /\ InitFill
    /\ [][NextBurst]_vars
    /\ WF_vars(TickShaping)
    /\ WF_vars(WaitTokens)

\* -------------------------------------------------- confirmation listeners
\* The requests of the one drain whose listeners are followed.
MaxPayloads == 3

\* The requests of the drain whose listeners are followed to their end.
MaxWatched == 2

\* The 30 seconds a listener polls its queue for, in ticks.
ListenTicks == 2

\* TransactionPayload.hash(): the payload holds a nonce, one hash per payload.
payload_hash(p) == <<"sha512", p>>

\* payload.sender_public_key: the key of the request the payload was made for.
sender_public_key(p) == <<"sender", p>>

\* Server._save_mongo_document: the document it creates.
save_mongo_document(p) ==
    [sender |-> sender_public_key(p), signer |-> "batcher", ca |-> "", hash |-> payload_hash(p)]

pipelineVars == <<env, ingestVars, buffer, callbacks, unacked, unknownTag, bucket, leaky,
                  remaining, pc, tokens, messages, payloads, batch, result, submitted,
                  started, sent, harnessVars, window>>

\* One turn of the loop of _start_blockchain_event_callback_listener: the
\* loop variable is bound to the next payload and a thread is started with
\* that payload's hash as its argument.
StartThread ==
    /\ pc = "settle"
    /\ Len(threads) < Len(started)
    /\ LET p == started[Len(threads) + 1] IN
          /\ payload' = p
          /\ threads' = Append(threads, [hash |-> payload_hash(p), pc |-> "declare",
                                         start |-> 0, result |-> FALSE])
    /\ UNCHANGED <<debited, pipelineVars, queues, documents>>

\* create_and_send_batch returns once the loop has started every thread (or
\* raised before it), and the try/except of consume_queue settles the drain.
SettleListened ==
    /\ Len(threads) = Len(started)
    /\ SettleBatch

\* _async_task: connection, channel, queue_declare(queue=hash), start_time.
Declare(i) ==
    /\ threads[i].pc = "declare"
    /\ queues' = [queues EXCEPT !.declared = @ \cup {threads[i].hash}]
    /\ threads' = [threads EXCEPT ![i].pc = "poll", ![i].start = monotonic]
    /\ UNCHANGED <<debited, pipelineVars, payload, documents>>

\* The event bus publishes the confirmation of a submitted transaction to the
\* queue named by its payload's hash.
Confirm(i) ==
    /\ threads[i].pc = "poll"
    /\ threads[i].hash \in queues.declared
    /\ threads[i].hash \notin queues.ready
    /\ queues' = [queues EXCEPT !.ready = @ \cup {threads[i].hash}]
    /\ UNCHANGED <<debited, pipelineVars, payload, threads, documents>>

\* _async_task, a turn of its loop inside the time limit whose basic_get
\* returns the message (auto_ack takes it off the queue): result = True, break.
\* A turn that gets nothing sleeps and changes nothing.
Poll(i) ==
    /\ threads[i].pc = "poll"
    /\ monotonic - threads[i].start < ListenTicks
    /\ threads[i].hash \in queues.ready
    /\ queues' = [queues EXCEPT !.ready = @ \ {threads[i].hash}]
    /\ threads' = [threads EXCEPT ![i].pc = "finish", ![i].result = TRUE]
    /\ UNCHANGED <<debited, pipelineVars, payload, documents>>

\* _async_task polling on when the time limit has passed.
ExpireNever(i) ==
    /\ threads[i].pc = "poll"
    /\ ~(monotonic - threads[i].start < ListenTicks)
    /\ UNCHANGED vars

\* _async_task: the loop's condition fails once the time limit has passed.
Expire(i) ==
    /\ threads[i].pc = "poll"
    /\ ~(monotonic - threads[i].start < ListenTicks)
    /\ threads' = [threads EXCEPT ![i].pc = "finish"]
    /\ UNCHANGED <<debited, pipelineVars, payload, queues, documents>>

\* _async_task after its loop: if result: self._save_mongo_document(payload).
\* payload is the variable of the enclosing loop, read when this line runs.
Finish(i) ==
    /\ threads[i].pc = "finish"
    /\ documents' = IF threads[i].result
                    THEN Append(documents, save_mongo_document(payload))
                    ELSE documents
    /\ threads' = [threads EXCEPT ![i].pc = "delete"]
    /\ UNCHANGED <<debited, pipelineVars, payload, queues>>

\* _async_task: queue_delete(queue=hash), channel.close(), connection.close().
Delete(i) ==
    /\ threads[i].pc = "delete"
    /\ queues' = [declared |-> queues.declared \ {threads[i].hash},
                  ready |-> queues.ready \ {threads[i].hash}]
    /\ threads' = [threads EXCEPT ![i].pc = "done"]
    /\ UNCHANGED <<debited, pipelineVars, payload, documents>>

\* Whether listener i still reads the clock.
Polling(i) == threads[i].pc = "poll" /\ monotonic - threads[i].start < ListenTicks

\* One second passes, for the buckets and for the listeners that poll.
TickListeners ==
    /\ \/ bucket.present /\ replenish(bucket, monotonic).tokens < TOKEN_CAPACITY
       \/ leaky > 0
       \/ \E i \in 1..Len(threads) : Polling(i)
    /\ bucket' = IF bucket.present THEN [bucket EXCEPT !.last = Older(@)] ELSE bucket
    /\ leaky' = 0
    /\ threads' = [i \in 1..Len(threads) |->
                      IF Polling(i) THEN [threads[i] EXCEPT !.start = Older(@)]
                      ELSE threads[i]]
    /\ UNCHANGED <<debited, env, ingestVars, buffer, callbacks, unacked, unknownTag, remaining, pc, tokens,
                   messages, payloads, batch, result, submitted, started, sent, harnessVars,
                   window, payload, queues, documents>>

\* One drain of up to n deliveries is in the buffer.
DrainOf(n) ==
    /\ env = DefaultEnv
    /\ \E k \in 1..n :
          /\ nextTag = k + 1
          /\ buffer \in [1..k -> [tag : 1..k, body : Bodies]]
          /\ \A j \in 1..k : buffer[j].tag = j
          /\ unacked = 1..k
    /\ putting = <<>>
    /\ blockedTicks = 0
    /\ callbacks = <<>>
    /\ unknownTag = FALSE
    /\ NewBuckets
    /\ IdleDispatcher
    /\ IdleCallers
    /\ NoListeners

InitListeners == DrainOf(MaxPayloads)

InitWatched == DrainOf(MaxWatched)

ListenerStep(i) ==
    \/ Declare(i)
    \/ Confirm(i)
    \/ Poll(i)
    \/ Expire(i)
    \/ Finish(i)
    \/ Delete(i)

NextListeners ==
    \/ RateLimit
    \/ ReadSize
    \/ WaitTokens
    \/ Reshape
    \/ BufferGet
    \/ MapMessages
    \/ BuildBatch
    \/ SendBatch
    \/ StartThread
    \/ SettleListened
    \/ RunCallback
    \/ \E i \in 1..Len(threads) : Declare(i)
    \/ \E i \in 1..Len(threads) : Confirm(i)
    \/ \E i \in 1..Len(threads) : Poll(i)
    \/ \E i \in 1..Len(threads) : Expire(i)
    \/ \E i \in 1..Len(threads) : Finish(i)
    \/ \E i \in 1..Len(threads) : Delete(i)
    \/ TickListeners

SpecListeners == InitListeners /\ [][NextListeners]_vars

\* Time passes and every listener thread is scheduled, as is the dispatcher's
\* loop that starts them.
FairSpecListeners ==
    /\ InitWatched
    /\ [][NextListeners]_vars
    /\ WF_vars(TickListeners)
    /\ WF_vars(StartThread)
    /\ \A i \in 1..MaxPayloads : WF_vars(i <= Len(threads) /\ ListenerStep(i))

\* ------------------------------------------------------------ properties
\* The callbacks a step of the dispatcher posts.
Posted == SubSeq(callbacks', Len(callbacks) + 1, Len(callbacks'))

\* create_and_send_batch returned: the batch was sent and the validator
\* answered with a status that raises nothing.
Returned == submitted /\ result \in {"OK", "INTERNAL_ERROR"}

CAFailures == CAResponses \ {"200"}

\* C1: when create_and_send_batch returns for a drain, the dispatcher posts
\* exactly one callback, a basic_ack with multiple=True on the delivery tag
\* of the last message it drained in that iteration, and no reject.
C1_AckLastOnSuccess ==
    [][(pc = "settle" /\ Returned /\ pc' # "settle") =>
          /\ messages # <<>>
          /\ Len(Posted) = 1
          /\ Posted[1].op = "ack" /\ Posted[1].multiple
          /\ Posted[1].tags = <<messages[Len(messages)].tag>>]_vars

\* Deliveries 1 and 2 were drained together and one multi-ack on tag 2 is
\* posted for both.
C1_Witness ==
    /\ Len(callbacks) = 1
    /\ callbacks[1].op = "ack" /\ callbacks[1].multiple /\ callbacks[1].tags = <<2>>
    /\ {1, 2} \subseteq unacked

\* C2: when the validator answers QUEUE_FULL, the dispatcher posts one
\* callback that rejects every message of the drain with requeue=True and
\* acks none, no listener was started, and the token bucket is left as
\* debited.
C2_QueueFullRequeuesAll ==
    [][(pc = "settle" /\ result = "QUEUE_FULL" /\ pc' # "settle") =>
          /\ started = <<>>
          /\ messages # <<>>
          /\ Len(Posted) = 1
          /\ Posted[1].op = "reject" /\ Posted[1].requeue
          /\ Posted[1].tags = TagsOf(messages)
          /\ bucket' = bucket]_vars

\* A reject with requeue of a drain of several messages is posted.
C2_Witness ==
    \E k \in DOMAIN callbacks :
        callbacks[k].op = "reject" /\ callbacks[k].requeue /\ Len(callbacks[k].tags) >= 2

\* C3: when create_and_send_batch fails with anything but back pressure (a
\* CA failure, INVALID_BATCH, the validator timeout), the dispatcher posts
\* one callback that rejects every message of the drain with requeue=False.
C3_OtherFailuresRejectAll ==
    [][(pc = "settle" /\ result \in CAFailures \cup {"INVALID_BATCH", "timeout"}
          /\ pc' # "settle") =>
          /\ messages # <<>>
          /\ Len(Posted) = 1
          /\ Posted[1].op = "reject" /\ ~Posted[1].requeue
          /\ Posted[1].tags = TagsOf(messages)]_vars

\* A reject without requeue of a drain of several messages is posted.
C3_Witness ==
    \E k \in DOMAIN callbacks :
        callbacks[k].op = "reject" /\ ~callbacks[k].requeue /\ Len(callbacks[k].tags) >= 2

\* C4: a drained message whose body does not deserialize gets a reject with
\* requeue=False posted for it alone, no other message of the drain gets
\* one, the message is not among the payloads given to the batch builder,
\* and the dispatcher goes on to the builder and to its next iteration.
C4_MalformedRejectedAlone ==
    [][LET all == 1..Len(messages)
           bad == {k \in all : ~deserialize(messages[k].body)}
       IN /\ (pc = "drain" /\ pc' # "drain") =>
                /\ Len(Posted) = Cardinality(bad)
                /\ \A j \in 1..Len(Posted) :
                      /\ Posted[j].op = "reject" /\ ~Posted[j].requeue
                      /\ \E k \in bad : Posted[j].tags = <<messages[k].tag>>
                /\ \A k \in bad : \E j \in 1..Len(Posted) : Posted[j].tags = <<messages[k].tag>>
                /\ Len(payloads') = Len(messages) - Cardinality(bad)
                /\ \A j \in 1..Len(payloads') : \E k \in all \ bad : payloads'[j] = messages[k]
                /\ pc' = "build"
          /\ (pc \in {"build", "send", "settle"} /\ bad # {} /\ pc' # pc) =>
                pc' \in {"send", "settle", "limit"}]_vars

\* A drain of a well-formed and a malformed message reached the builder with
\* the one payload, the reject of the malformed message posted last.
C4_Witness ==
    /\ pc = "build" /\ Len(messages) = 2 /\ Len(payloads) = 1
    /\ \E k \in 1..2 :
          /\ ~deserialize(messages[k].body)
          /\ callbacks # <<>>
          /\ callbacks[Len(callbacks)].tags = <<messages[k].tag>>
          /\ ~callbacks[Len(callbacks)].requeue

\* C5: a request with an invalid client signature is dropped by the builder
\* and raises nothing: the batch of a drain holds no transaction of a
\* dropped request and one for every valid request, so at most N - 1 for N
\* requests with a dropped one, and on success the multi-ack on the last
\* drained tag covers the dropped request's delivery.
C5_InvalidSignatureDropped ==
    [][LET invalid == {k \in 1..Len(payloads) : ~payloads[k].body.sig}
           valid == (1..Len(payloads)) \ invalid
       IN /\ (pc = "build" /\ pc' = "settle") => valid # {}
          /\ (pc = "build" /\ pc' = "send") =>
                /\ Len(batch') <= Len(payloads) - Cardinality(invalid)
                /\ \A k \in invalid : \A j \in 1..Len(batch') : batch'[j] # payloads[k].tag
                /\ \A k \in valid : \E j \in 1..Len(batch') : batch'[j] = payloads[k].tag
          /\ (pc = "settle" /\ Returned /\ pc' # "settle") =>
                /\ Len(Posted) = 1 /\ Posted[1].op = "ack" /\ Posted[1].multiple
                /\ \A k \in 1..Len(messages) : messages[k].tag <= Posted[1].tags[1]
          /\ (callbacks # <<>> /\ callbacks' = Tail(callbacks) /\ Head(callbacks).op = "ack") =>
                \A t \in unacked' : t > Head(callbacks).tags[1]]_vars

\* The batch of a valid request followed by one with a bad signature was
\* accepted by the validator with the one transaction.
C5_Witness ==
    /\ pc = "settle" /\ Returned
    /\ Len(messages) = 2 /\ Len(payloads) = 2
    /\ payloads[1].body.sig /\ ~payloads[2].body.sig
    /\ batch = <<payloads[1].tag>>

\* C6: when the CA fails for a request that passed validation, the failure
\* leaves create_and_send_batch: nothing is sent to the validator, no
\* listener is started, and the dispatcher rejects every message of the
\* drain with requeue=False, those already signed by the CA included.
C6_CAFailurePropagates ==
    [][/\ pc = "build" =>
             \A ca \in [1..Len(payloads) -> CAResponses] :
                 (/\ BuildWith(ca)
                  /\ \E k \in 1..Len(payloads) : payloads[k].body.sig /\ ca[k] \in CAFailures)
                 => /\ pc' = "settle" /\ result' \in CAFailures
                    /\ batch' = <<>> /\ ~submitted' /\ started' = <<>>
       /\ (pc = "settle" /\ result \in CAFailures /\ pc' # "settle") =>
             /\ ~submitted /\ started = <<>>
             /\ messages # <<>>
             /\ Len(Posted) = 1
             /\ Posted[1].op = "reject" /\ ~Posted[1].requeue
             /\ Posted[1].tags = TagsOf(messages)]_vars

\* A drain of two valid requests ended on a CA failure, nothing sent.
C6_Witness ==
    /\ pc = "settle" /\ result \in CAFailures /\ ~submitted
    /\ Len(payloads) = 2 /\ payloads[1].body.sig /\ payloads[2].body.sig

\* C7: on a full buffer the ingestion callback waits in the enqueue for a
\* bounded time only: it is never still blocked once the enqueue timeout
\* has passed.
C7_EnqueueWaitBounded == blockedTicks <= PutTimeoutTicks

\* C8: the dispatcher does not stop while a message waits to be drained: a
\* message in the staging buffer (or held by the blocked enqueue) always has
\* a running dispatcher thread to drain and settle it.
C8_DispatcherKeepsDraining == (buffer # <<>> \/ putting # <<>>) => pc # "dead"

\* The count after lazy replenishment in a call made alone: what the bucket
\* held when the call began and what the rate added until it replenished.
Available == Min(TOKEN_CAPACITY, base.tokens + TOKEN_RATE * (bucket.last - base.last))

\* Caller c has returned from a call no other call ran beside.
Alone(c) == call[c].pc = "done" /\ call[Other(c)].pc = "idle" /\ ~overlap

\* C9: in sequential use consume(n) returns True only if the count after
\* lazy replenishment is at least n, and then exactly n tokens are gone;
\* when it returns False no token is removed.
C9_AllOrNothing ==
    \A c \in Callers :
        Alone(c) =>
            /\ call[c].res => Available >= call[c].n /\ bucket.tokens = Available - call[c].n
            /\ ~call[c].res => bucket.tokens = Available

\* A call made alone succeeded on tokens the lazy replenishment added.
C9_Witness ==
    \E c \in Callers :
        /\ Alone(c) /\ call[c].res
        /\ base.tokens < call[c].n
        /\ bucket.tokens = Available - call[c].n

\* The tokens the two calls of a round had between them: what the bucket
\* held when the first began and what the rate generated since.
Supply == base.tokens + TOKEN_RATE * (monotonic - base.last)

\* Both callers returned from consume(n), the same n.
BothReturned ==
    /\ \A c \in Callers : call[c].pc = "done"
    /\ call["a"].n = call["b"].n

\* C10: two consume(n) calls whose replenish, check and subtract steps do
\* not interleave never both succeed when the bucket has fewer than 2n
\* tokens for them.
C10_SequentialNeverBothSucceed ==
    (BothReturned /\ ~overlap /\ \A c \in Callers : call[c].res) => 2 * call["a"].n <= Supply

\* Two calls one after the other on a bucket with fewer than 2n tokens: the
\* second was refused.
C10_Witness ==
    /\ BothReturned /\ ~overlap
    /\ Supply < 2 * call["a"].n
    /\ \E c \in Callers : call[c].res

\* C10 as stated: two concurrent consume(n) calls never both succeed when
\* the bucket has fewer than 2n tokens, however their steps interleave.
C10_ConcurrentNeverBothSucceed ==
    (BothReturned /\ \A c \in Callers : call[c].res) => 2 * call["a"].n <= Supply

RECURSIVE Sum(_)
\* The sum of a sequence of numbers.
Sum(w) == IF w = <<>> THEN 0 ELSE Head(w) + Sum(Tail(w))

\* The messages released to the batch builder in the last T seconds.
ReleasedIn(T) == Sum(SubSeq(window, WindowTicks - T + 1, WindowTicks))

\* C11: in a window of T seconds the dispatcher releases at most
\* L*T + C_t messages from the buffer to the batch builder, whatever the
\* input (L the leaky bucket limit, C_t the token bucket capacity).
C11_ReleaseRateBounded ==
    \A T \in 1..WindowTicks : ReleasedIn(T) <= LEAKY_BUCKET_LIMIT * T + TOKEN_CAPACITY

\* The messages of the burst not yet released to the batch builder.
Unreleased == Len(buffer) + Len(messages)

\* C12: 25 messages enqueued at once with LEAKY = 10 and CAPACITY = 30: the
\* first drain releases 10 and leaves remaining = 15, the next releases 10
\* and leaves remaining = 5, the next releases the last 5, and the three
\* drains release the 25 messages, each once.
C12_BurstReshapedInThreeDrains ==
    pc = "drain" =>
        /\ Unreleased \in {25, 15, 5}
        /\ Unreleased = 25 => tokens = 10 /\ remaining = 15
        /\ Unreleased = 15 => tokens = 10 /\ remaining = 5
        /\ Unreleased = 5 => tokens \in 5..10

\* The messages taken out of the buffer so far: the deliveries that are
\* neither in it nor waiting to be put in it.
Taken == nextTag - 1 - Len(buffer) - Len(putting)

\* A sequence of deliveries or of tags is in the order of arrival.
InArrivalOrder(tags) == \A i, j \in 1..Len(tags) : i < j => tags[i] < tags[j]

\* C13: the buffer is first-in first-out across drains: each message taken is
\* the oldest delivery not yet taken, so no drain overtakes a message left by
\* an earlier one; within a drain the messages, the payloads and the
\* transactions are in the order of arrival.
C13_FifoAcrossDrains ==
    [][ /\ messages' # messages /\ messages' # <<>> =>
              /\ Len(messages') = Len(messages) + 1
              /\ SubSeq(messages', 1, Len(messages)) = messages
              /\ messages'[Len(messages')].tag = Taken + 1
        /\ InArrivalOrder(TagsOf(messages'))
        /\ InArrivalOrder(TagsOf(payloads'))
        /\ InArrivalOrder(batch') ]_vars

\* A second drain has taken the message the first one left in the buffer
\* while a newer one waits behind it.
C13_Witness ==
    /\ pc = "drain"
    /\ Taken >= 3
    /\ Len(messages) = 1
    /\ messages[1].tag = Taken
    /\ buffer # <<>>

\* The requests of a drain that pass the signature check, in order.
Surviving(trs) == SelectSeq(trs, LAMBDA tr : validate_transaction_request(tr))

\* C14: in every submitted batch the transactions are those of the drain's
\* surviving (valid-signature) requests, in the same order, and the header's
\* transaction_ids is the list of the transactions' header signatures, in
\* the same order and of the same length.
C14_BatchKeepsRequestOrder ==
    (pc = "settle" /\ submitted) =>
        /\ sent.transactions = TagsOf(Surviving(payloads))
        /\ Len(sent.header.transaction_ids) = Len(sent.transactions)
        /\ \A k \in 1..Len(sent.transactions) :
              sent.header.transaction_ids[k] = header_signature(sent.transactions[k])

\* A batch of two transactions has been submitted.
C14_Witness ==
    /\ pc = "settle"
    /\ submitted
    /\ Len(sent.transactions) = 2
    /\ sent.transactions[1] < sent.transactions[2]

\* The validator status names that _send_batches returns as success.
SuccessStatus == {"OK", "INTERNAL_ERROR"}

\* The hashes the started listeners were given, by position.
ListenerHashes == [i \in 1..Len(threads) |-> threads[i].hash]

\* C15: a listener is started only after the submission of the batch returned
\* a success status; when the iteration is settled there is exactly one
\* listener per payload of the batch (one per surviving request) after a
\* success and none after a failure of the builder or of the submission; and
\* the settlement is not held back by any listener: it can be issued as soon
\* as the last listener has been started.
C15_ListenersOnlyAfterSuccess ==
    /\ [][ /\ Len(threads') # Len(threads) => submitted /\ result \in SuccessStatus
           /\ pc = "settle" /\ pc' # "settle" =>
                 IF submitted /\ result \in SuccessStatus
                 THEN /\ ListenerHashes = [k \in 1..Len(batch) |-> payload_hash(batch[k])]
                      /\ batch = TagsOf(Surviving(payloads))
                 ELSE threads = <<>> ]_vars
    /\ [](pc = "settle" /\ Len(threads) = Len(started) => ENABLED SettleListened)

\* The drain has been acked at the broker while none of its three listeners
\* has finished.
C15_Witness ==
    /\ Len(threads) = 3
    /\ \A i \in 1..3 : threads[i].pc \in {"declare", "poll"}
    /\ pc # "settle"
    /\ callbacks = <<>>
    /\ unacked = {}
    /\ ~unknownTag

\* Every listener of the batch has been started and has finished.
AllListenersDone ==
    /\ threads # <<>>
    /\ Len(threads) = Len(started) \/ pc # "settle"
    /\ \A i \in 1..Len(threads) : threads[i].pc = "done"

\* The payloads whose listener got the confirmation message.
Confirmed == {batch_p \in 1..MaxPayloads :
                 \E i \in 1..Len(threads) :
                    threads[i].hash = payload_hash(batch_p) /\ threads[i].result}

\* C16: the listener for hash h that gets the confirmation message persists
\* one document whose hash is h and whose sender is that payload's sender;
\* once all listeners of a batch have finished the store holds exactly one
\* document per confirmed transaction, keyed by its own hash, and none for a
\* transaction that was not confirmed.
C16_OneDocumentPerConfirmedHash ==
    /\ [][ \A i \in 1..Len(threads) :
              (threads[i].pc = "finish" /\ threads'[i].pc = "delete" /\ threads[i].result) =>
                  /\ Len(documents') = Len(documents) + 1
                  /\ documents'[Len(documents')].hash = threads[i].hash
                  /\ \E p \in 1..MaxPayloads :
                        /\ payload_hash(p) = threads[i].hash
                        /\ documents'[Len(documents')].sender = sender_public_key(p) ]_vars
    /\ [](AllListenersDone =>
             /\ Len(documents) = Cardinality(Confirmed)
             /\ {documents[k].hash : k \in 1..Len(documents)}
                   = {payload_hash(p) : p \in Confirmed})

\* Listener i leaves its polling loop in this step without a message.
TimesOut(i) == threads[i].pc = "poll" /\ threads'[i].pc = "finish" /\ ~threads'[i].result

\* Listener i, which got no message, goes past the saving of the document.
GivesUp(i) == threads[i].pc = "finish" /\ threads'[i].pc = "delete" /\ ~threads[i].result

\* Nothing of the other listeners changes in this step: their threads, and
\* their queues.
PeersUntouched(i) ==
    /\ Len(threads') = Len(threads)
    /\ \A j \in 1..Len(threads) : j # i => threads'[j] = threads[j]
    /\ queues'.declared \ {threads[i].hash} = queues.declared \ {threads[i].hash}
    /\ queues'.ready \ {threads[i].hash} = queues.ready \ {threads[i].hash}

\* C17: every confirmation listener terminates; one whose queue gives no
\* message within the time limit writes no document, is not started again
\* (a finished listener stays finished and no second listener is started for
\* its hash), has deleted its queue when it ends, and its steps leave the
\* other listeners and their queues as they were.
C17_ListenersTerminate ==
    /\ \A i \in 1..MaxPayloads :
          (Len(threads) >= i) ~> (Len(threads) >= i /\ threads[i].pc = "done")
    /\ [][ \A i \in 1..Len(threads) :
              /\ TimesOut(i) => documents' = documents /\ PeersUntouched(i)
              /\ GivesUp(i) => documents' = documents /\ PeersUntouched(i)
              /\ threads'[i].pc = "done" => threads'[i].hash \notin queues'.declared
              /\ threads[i].pc = "done" => threads'[i] = threads[i]
              /\ \A j \in 1..Len(threads') : j # i => threads'[j].hash # threads'[i].hash ]_vars

\* Of two listeners the first has timed out and ended, its queue deleted and
\* no document written for it, while the other was confirmed and wrote one.
C17_Witness ==
    /\ Len(threads) = 2
    /\ \A i \in 1..2 : threads[i].pc = "done"
    /\ ~threads[1].result /\ threads[2].result
    /\ Len(documents) = 1
    /\ queues.declared = {}

\* The validator answers the submission in this step.
Answered == pc = "send" /\ pc' = "settle"

\* The iteration whose batch was submitted is settled in this step.
SettlesSubmitted == pc = "settle" /\ submitted /\ pc' # "settle"

\* C18: the status INVALID_BATCH raises the permanent invalid-batch error
\* (no listener, the drain rejected without requeue), QUEUE_FULL raises the
\* transient back-pressure error (no listener, the drain rejected with
\* requeue), and every other status name, OK or not, is returned as success:
\* a listener is started for every payload of the batch and the drain is
\* acked.
C18_StatusMapping ==
    [][ /\ Answered /\ result' = "INVALID_BATCH" =>
              /\ validate_batch_response_status(result') = "Sawtooth_invalid_transaction_format"
              /\ started' = <<>>
        /\ Answered /\ result' = "QUEUE_FULL" =>
              /\ validate_batch_response_status(result') = "Sawtooth_back_pressure_exception"
              /\ started' = <<>>
        /\ Answered /\ result' \in {"OK", "INTERNAL_ERROR"} =>
              /\ validate_batch_response_status(result') = "none"
              /\ started' = batch
        /\ SettlesSubmitted /\ result = "INVALID_BATCH" =>
              Len(Posted) = 1 /\ Posted[1].op = "reject" /\ ~Posted[1].requeue
        /\ SettlesSubmitted /\ result = "QUEUE_FULL" =>
              Len(Posted) = 1 /\ Posted[1].op = "reject" /\ Posted[1].requeue
        /\ SettlesSubmitted /\ result \in {"OK", "INTERNAL_ERROR"} =>
              Len(Posted) = 1 /\ Posted[1].op = "ack" ]_vars

\* The validator answered INTERNAL_ERROR, neither OK nor one of the two
\* mapped names, and the listeners of a batch of two were started.
C18_Witness ==
    /\ pc = "settle"
    /\ submitted
    /\ result = "INTERNAL_ERROR"
    /\ Len(started) = 2

\* token_bucket.consume succeeds in this step of wait_to_consume.
Debits == pc = "consume" /\ pc' = "reshape"

\* The tokens the step takes out of the bucket, once replenished.
Debited == replenish(bucket, monotonic).tokens - bucket'.tokens

\* C19: in each dispatcher iteration the number of tokens debited from the
\* token bucket equals the buffer size s read in that iteration, whatever
\* the carry-over counter holds.
C19_DebitEqualsSizeRead ==
    [][Debits => Debited = tokens]_vars

\* wait_to_consume reshapes what it obtained in this step.
Reshapes == pc = "reshape" /\ pc' # "reshape"

\* C20: the reshaping step, for n tokens obtained and the carry-over
\* remaining, with L the leaky limit: if n > L the allowance is L and
\* remaining grows by n - L; otherwise, with e = min(remaining, L - n), the
\* allowance is n + e and remaining shrinks by e. Either way the allowance is
\* at most L and allowance + remaining' = n + remaining.
C20_ReshapeStep ==
    [][Reshapes =>
          LET n == tokens
              L == LEAKY_BUCKET_LIMIT
              e == IF remaining <= L - n THEN remaining ELSE L - n
          IN /\ n > L => tokens' = L /\ remaining' = remaining + (n - L)
             /\ n <= L => tokens' = n + e /\ remaining' = remaining - e
             /\ tokens' <= L
             /\ tokens' + remaining' = n + remaining]_vars

\* A drain starts with an allowance above the number of messages there are
\* to take: the size read was below the limit and carry-over was added.
C20_Witness ==
    /\ pc = "drain"
    /\ putting = <<>>
    /\ tokens > Len(buffer) + Len(messages)

\* C21: the carry-over counter remaining is a non-negative integer in every
\* reachable state, whatever the iterations and the arrivals were.
C21_RemainingNonNegative == remaining \in Nat

\* The carry-over has been raised by one drain and used up by a later one.
C21_Witness ==
    /\ pc = "drain"
    /\ remaining = 0
    /\ putting = <<>>
    /\ tokens > Len(buffer) + Len(messages)

\* C22: every upstream delivery receives at most one settlement: no callback
\* that runs names a delivery that has been settled before, so a message
\* rejected alone as malformed is not named again by the multi-ack on the
\* last drained tag or by the reject of the whole drain.
C22_AtMostOneSettlement == ~unknownTag

\* The deliveries that have not been drained: in the buffer, or held by the
\* ingestion callback waiting to put.
Undrained == {buffer[k].tag : k \in 1..Len(buffer)} \cup {putting[k].tag : k \in 1..Len(putting)}

\* The connection's thread runs a basic_ack with multiple=True in this step.
MultiAckRuns ==
    /\ callbacks # <<>>
    /\ callbacks' = Tail(callbacks)
    /\ Head(callbacks).op = "ack"
    /\ Head(callbacks).multiple

\* C23: a multi-ack only covers messages that have been drained: when
\* basic_ack(tag, multiple=True) takes effect no delivery with a tag up to
\* tag is still in the buffer or waiting to be put into it, and no delivery
\* it settles is.
C23_MultiAckCoversDrainedOnly ==
    [][MultiAckRuns =>
          /\ \A t \in Undrained : t > Head(callbacks).tags[1]
          /\ (unacked \ unacked') \cap Undrained = {}]_vars

\* The multi-ack for deliveries 1 and 2 is about to run while a later
\* delivery waits in the buffer.
C23_Witness ==
    /\ callbacks # <<>>
    /\ callbacks[1].op = "ack" /\ callbacks[1].multiple /\ callbacks[1].tags = <<2>>
    /\ putting = <<>>
    /\ buffer # <<>>
    /\ {1, 2} \subseteq unacked

\* C24: every drain is non-empty: get_buffer_messages returns at least one
\* message in each iteration, so ack_batch and reject_batch find a last
\* message when the iteration is settled and the dispatcher goes on to its
\* next iteration instead of ending on an empty drain.
C24_DrainNeverEmpty ==
    [][ /\ (pc = "drain" /\ pc' # "drain") => Len(messages) >= 1
        /\ (pc = "settle" /\ pc' # "settle") => messages # <<>> /\ pc' = "limit" ]_vars

\* A drain of a single message, the only one in the buffer, is being settled.
C24_Witness ==
    /\ pc = "settle"
    /\ Len(messages) = 1
    /\ buffer = <<>>
    /\ putting = <<>>

\* C25: token conservation: the messages drained from the buffer so far
\* never number more than the tokens the dispatcher has debited from the
\* token bucket so far.
C25_TokenConservation == Taken <= debited

\* C26: the token count the dispatcher asks for in an iteration is at least 1
\* and at most the capacity of the token bucket, the size read being at most
\* the buffer's maxsize, which is that capacity; so consume does not raise on
\* its argument and the loop waiting for tokens ends once the bucket has
\* refilled.
C26_RequestWithinCapacity ==
    /\ [](pc = "consume" => tokens \in 1..TOKEN_CAPACITY)
    /\ [][Debits => (debited' - debited) \in 1..TOKEN_CAPACITY]_vars
    /\ (pc = "consume") ~> (pc = "reshape")

\* The dispatcher is in its loop on consume with the bucket just found
\* empty: it has to wait for the refill.
C26_Witness ==
    /\ pc = "consume"
    /\ bucket.present
    /\ bucket.last = monotonic
    /\ bucket.tokens = 0

====
